---- MODULE Spec2Model ----
(***************************************************************************)
(* Type inference of the Walrus front-end (crates/walrus-semantics,        *)
(* ty/infer.rs): infer(module, scopes) = Ctx::new, infer_module, finish.   *)
(* The walker is a pure function of the module, so every infer_* method is *)
(* an operator over the context record                                     *)
(*   c = [result, table, fn_type, loop_type, panicked]                     *)
(* returning [c |-> context after the call, ty |-> returned type].         *)
(* The state machine steps through infer_module one declaration at a time  *)
(* (pass 1: infer_decl, pass 2: infer_decl_body) and then runs finish.     *)
(***************************************************************************)
EXTENDS Naturals, Sequences, FiniteSets, TLC

VARIABLES module, scopes, result, table, fn_type, loop_type, pc, decl_idx, panicked, output,
          writes   \* history: the number of side-map inserts made so far

vars ==
  <<module, scopes, result, table, fn_type, loop_type, pc, decl_idx, panicked, output, writes>>

(***************************************************************************)
(* Bounds of the input modules.                                            *)
(***************************************************************************)
\* largest number of arguments of a generated call
MaxArgs == 2
\* largest number of initializers of a generated struct or enum literal
MaxInits == 2

(***************************************************************************)
(* Semantic types (ty::Type): App { ctor, params }, Infer(var), Unknown.   *)
(* One record shape for all three so that any two types can be compared.   *)
(***************************************************************************)
Unknown == [k |-> "Unknown", c |-> "", id |-> 0, ps |-> <<>>]
Infer(v) == [k |-> "Infer", c |-> "", id |-> v, ps |-> <<>>]
App(ctor, id, params) == [k |-> "App", c |-> ctor, id |-> id, ps |-> params]
BOOL == App("Bool", 0, <<>>)
INT == App("Int", 0, <<>>)
FLOAT == App("Float", 0, <<>>)
CHAR == App("Char", 0, <<>>)
UNIT == App("Unit", 0, <<>>)
NEVER == App("Never", 0, <<>>)
tuple(tys) == App("Tuple", 0, tys)
\* Fn keeps its return type as the last parameter
function(params, ret) == App("Fn", 0, Append(params, ret))
struct_(id) == App("Struct", id, <<>>)
enum_(id) == App("Enum", id, <<>>)

\* Option<T>: <<>> is None, <<x>> is Some(x)
None == <<>>
Some(x) == <<x>>
IsSome(o) == Len(o) = 1

\* let x = e; body  is written  The({ body : x \in {e} }):  e is evaluated
\* once, before body, as the statements of a method are
The(S) == CHOOSE x \in S : TRUE

FnType(params, ret) == [params |-> params, ret |-> ret]
\* impl From<FnType> for Type
fn_into(ft) == function(ft.params, ft.ret)
\* Type::as_fn: Some(FnType) for an App(Fn, ..), else None
as_fn(ty) ==
  IF ty.k = "App" /\ ty.c = "Fn" /\ Len(ty.ps) >= 1
    THEN Some(FnType(SubSeq(ty.ps, 1, Len(ty.ps) - 1), ty.ps[Len(ty.ps)]))
    ELSE None
\* Type::as_tuple: Some(params) for an App(Tuple, ..), else None
as_tuple(ty) == IF ty.k = "App" /\ ty.c = "Tuple" THEN Some(ty.ps) ELSE None

(***************************************************************************)
(* Unification table (ty::unify::InferenceTable).  Variable v is entry v   *)
(* of the table: Unbound, or the type it is bound to (possibly another     *)
(* variable).                                                              *)
(***************************************************************************)
Unbound == [k |-> "Unbound", c |-> "", id |-> 0, ps |-> <<>>]

\* propagate_shallow: a bound variable is followed to its binding
RECURSIVE propagate_type_shallow(_, _)
propagate_type_shallow(tbl, ty) ==
  IF ty.k = "Infer" /\ tbl[ty.id].k # "Unbound"
    THEN propagate_type_shallow(tbl, tbl[ty.id])
    ELSE ty

\* occurs-check: does variable v occur in ty, following bindings
RECURSIVE occurs(_, _, _)
occurs(tbl, v, ty) ==
  LET t == propagate_type_shallow(tbl, ty) IN
  CASE t.k = "Infer" -> t.id = v
    [] t.k = "App" -> \E i \in 1..Len(t.ps) : occurs(tbl, v, t.ps[i])
    [] OTHER -> FALSE

\* InferenceTable::unify; returns [ok, table]
RECURSIVE table_unify(_, _, _)
RECURSIVE table_unify_params(_, _, _, _)
table_unify(tbl, t1, t2) ==
  LET a == propagate_type_shallow(tbl, t1)
      b == propagate_type_shallow(tbl, t2)
  IN
  CASE a.k = "Infer" /\ b.k = "Infer" /\ a.id = b.id -> [ok |-> TRUE, table |-> tbl]
    [] a.k = "Unknown" \/ b.k = "Unknown" -> [ok |-> TRUE, table |-> tbl]
    [] a.k = "Infer" ->
         IF occurs(tbl, a.id, b)
           THEN [ok |-> FALSE, table |-> tbl]
           ELSE [ok |-> TRUE, table |-> [tbl EXCEPT ![a.id] = b]]
    [] b.k = "Infer" ->
         IF occurs(tbl, b.id, a)
           THEN [ok |-> FALSE, table |-> tbl]
           ELSE [ok |-> TRUE, table |-> [tbl EXCEPT ![b.id] = a]]
    [] a.k = "App" /\ b.k = "App" ->
         IF a.c = b.c /\ a.id = b.id /\ Len(a.ps) = Len(b.ps)
           THEN table_unify_params(tbl, a.ps, b.ps, 1)
           ELSE [ok |-> FALSE, table |-> tbl]
    [] OTHER -> [ok |-> FALSE, table |-> tbl]

\* positional unification of the parameters, stopping at the first failure
table_unify_params(tbl, ps1, ps2, i) ==
  IF i > Len(ps1)
    THEN [ok |-> TRUE, table |-> tbl]
    ELSE LET r == table_unify(tbl, ps1[i], ps2[i]) IN
         IF r.ok THEN table_unify_params(r.table, ps1, ps2, i + 1) ELSE r

\* propagate_deep_best_effort: bound variables replaced, unbound ones kept
RECURSIVE table_propagate_type_as_far_as_possible(_, _)
table_propagate_type_as_far_as_possible(tbl, ty) ==
  LET t == propagate_type_shallow(tbl, ty) IN
  IF t.k = "App"
    THEN [t EXCEPT !.ps =
           [i \in 1..Len(t.ps) |-> table_propagate_type_as_far_as_possible(tbl, t.ps[i])]]
    ELSE t

\* propagate_deep_final: unbound variables (and variables already being
\* expanded, tv_stack) become Unknown
RECURSIVE propagate_type_completely_inner(_, _, _)
propagate_type_completely_inner(tbl, tv_stack, ty) ==
  CASE ty.k = "Infer" ->
         IF ty.id \in tv_stack \/ tbl[ty.id].k = "Unbound"
           THEN Unknown
           ELSE propagate_type_completely_inner(tbl, tv_stack \cup {ty.id}, tbl[ty.id])
    [] ty.k = "App" ->
         [ty EXCEPT !.ps =
           [i \in 1..Len(ty.ps) |-> propagate_type_completely_inner(tbl, tv_stack, ty.ps[i])]]
    [] OTHER -> ty

(***************************************************************************)
(* HIR (hir.rs) and Scopes.  Arenas are sequences, a handle is an index;   *)
(* an Option<handle> is None or Some(handle).  The input modules are       *)
(* written as nested terms and lowered into arenas, children before their  *)
(* parent.  scopes.expr[id] / scopes.type[id] is the denotation that       *)
(* lookup_expr / lookup_type gives at that site (k = "None" when the name  *)
(* is unbound).                                                            *)
(***************************************************************************)
Den(k, id, b) == [k |-> k, id |-> id, b |-> b]
NoDen == Den("None", 0, "")
DLocal(label) == [k |-> "Local", label |-> label]
DFn(id) == Den("Fn", id, "")
DStruct(id) == Den("Struct", id, "")
DEnum(id) == Den("Enum", id, "")
DBuiltin(b) == Den("Builtin", 0, b)

\* expression terms
TLit(l) == [k |-> "Lit", lit |-> l]
TVar(name, den) == [k |-> "Var", name |-> name, den |-> den]
TTuple(es) == [k |-> "Tuple", exprs |-> es]
TStruct(name, den, inits) == [k |-> "Struct", name |-> name, den |-> den, fields |-> inits]
TEnum(name, den, variant, inits) ==
  [k |-> "Enum", name |-> name, den |-> den, variant |-> variant, fields |-> inits]
TInit(name, val) == [name |-> name, val |-> val]
TIf(test, then_branch, else_branch) ==
  [k |-> "If", test |-> test, then_branch |-> then_branch, else_branch |-> else_branch]
TLambda(params, body) == [k |-> "Lambda", params |-> params, expr |-> body]
TCall(func, args) == [k |-> "Call", func |-> func, args |-> args]
TFieldIdx(e, idx) == [k |-> "Field", expr |-> e, field |-> [k |-> "Tuple", idx |-> idx, name |-> ""]]
TFieldNamed(e, name) == [k |-> "Field", expr |-> e, field |-> [k |-> "Named", idx |-> 0, name |-> name]]
TUnop(op, e) == [k |-> "Unop", op |-> op, expr |-> e]
TBinop(op, lhs, rhs) == [k |-> "Binop", op |-> op, lhs |-> lhs, rhs |-> rhs]
TLoop(e) == [k |-> "Loop", expr |-> e]
TReturn(e) == [k |-> "Return", payload |-> e]
TBreak(e) == [k |-> "Break", payload |-> e]
TContinue == [k |-> "Continue"]
TBlock(stmts, e) == [k |-> "Block", stmts |-> stmts, tail |-> e]
TStmtExpr(e) == [k |-> "Expr", expr |-> e]
TLet(pat, ty, e) == [k |-> "Let", pat |-> pat, ty |-> ty, expr |-> e]
TParam(pat, ty) == [pat |-> pat, ty |-> ty]
\* pattern terms
PVar(label) == [k |-> "Var", label |-> label]
PIgnore == [k |-> "Ignore"]
PTuple(ps) == [k |-> "Tuple", pats |-> ps]
\* type-annotation terms
TyVar(name, den) == [k |-> "Var", name |-> name, den |-> den]
TyInfer == [k |-> "Infer"]
TyTuple(ts) == [k |-> "Tuple", tys |-> ts]
TyFn(ps, ret) == [k |-> "Fn", params |-> ps, ret |-> ret]
TyInt == TyVar("Int", DBuiltin("Int"))
TyBool == TyVar("Bool", DBuiltin("Bool"))

Labels == {"p", "q", "x", "y", "a", "b"}
EmptyBuilder ==
  [exprs |-> <<>>, types |-> <<>>, pats |-> <<>>, vars |-> <<>>,
   sexpr |-> <<>>, stype |-> <<>>, env |-> [l \in Labels |-> 0]]

alloc_var(b, name) == [b |-> [b EXCEPT !.vars = Append(@, name)], id |-> Len(b.vars) + 1]
alloc_expr(b, e, den) ==
  [b |-> [b EXCEPT !.exprs = Append(@, e), !.sexpr = Append(@, den)], id |-> Len(b.exprs) + 1]
alloc_type(b, t, den) ==
  [b |-> [b EXCEPT !.types = Append(@, t), !.stype = Append(@, den)], id |-> Len(b.types) + 1]
alloc_pat(b, p) == [b |-> [b EXCEPT !.pats = Append(@, p)], id |-> Len(b.pats) + 1]
resolve_den(b, den) == IF den.k = "Local" THEN Den("Local", b.env[den.label], "") ELSE den

RECURSIVE lower_type(_, _)
RECURSIVE lower_types(_, _)
lower_type(b, t) ==
  CASE t.k = "Infer" -> alloc_type(b, [k |-> "Infer"], NoDen)
    [] t.k = "Var" ->
         The({ alloc_type(v.b, [k |-> "Var", var |-> v.id], t.den)
               : v \in {alloc_var(b, t.name)} })
    [] t.k = "Tuple" ->
         The({ alloc_type(r.b, [k |-> "Tuple", tys |-> r.ids], NoDen)
               : r \in {lower_types(b, t.tys)} })
    [] t.k = "Fn" ->
         The({ The({ alloc_type(rt.b, [k |-> "Fn", params |-> ps.ids, ret |-> rt.id], NoDen)
                     : rt \in {lower_type(ps.b, t.ret)} })
               : ps \in {lower_types(b, t.params)} })
lower_types(b, ts) ==
  IF ts = <<>> THEN [b |-> b, ids |-> <<>>]
  ELSE The({ The({ [b |-> r.b, ids |-> <<h.id>> \o r.ids]
                   : r \in {lower_types(h.b, Tail(ts))} })
             : h \in {lower_type(b, Head(ts))} })
lower_opt_type(b, o) ==
  IF o = <<>> THEN [b |-> b, id |-> None]
  ELSE The({ [b |-> r.b, id |-> Some(r.id)] : r \in {lower_type(b, o[1])} })

RECURSIVE lower_pat(_, _)
RECURSIVE lower_pats(_, _)
lower_pat(b, p) ==
  CASE p.k = "Ignore" -> alloc_pat(b, [k |-> "Ignore"])
    [] p.k = "Var" ->
         The({ The({ [b |-> [r.b EXCEPT !.env[p.label] = r.id], id |-> r.id]
                     : r \in {alloc_pat(v.b, [k |-> "Var", var |-> v.id])} })
               : v \in {alloc_var(b, p.label)} })
    [] p.k = "Tuple" ->
         The({ alloc_pat(r.b, [k |-> "Tuple", pats |-> r.ids])
               : r \in {lower_pats(b, p.pats)} })
lower_pats(b, ps) ==
  IF ps = <<>> THEN [b |-> b, ids |-> <<>>]
  ELSE The({ The({ [b |-> r.b, ids |-> <<h.id>> \o r.ids]
                   : r \in {lower_pats(h.b, Tail(ps))} })
             : h \in {lower_pat(b, Head(ps))} })

RECURSIVE lower_params(_, _)
lower_params(b, ps) ==
  IF ps = <<>> THEN [b |-> b, ids |-> <<>>]
  ELSE The({ The({ The({ [b |-> r.b, ids |-> <<[pat |-> p.id, ty |-> t.id]>> \o r.ids]
                         : r \in {lower_params(t.b, Tail(ps))} })
                   : t \in {lower_opt_type(p.b, Head(ps).ty)} })
             : p \in {lower_pat(b, Head(ps).pat)} })

RECURSIVE lower_expr(_, _)
RECURSIVE lower_exprs(_, _)
RECURSIVE lower_inits(_, _)
RECURSIVE lower_stmts(_, _)
lower_opt_expr(b, o) ==
  IF o = <<>> THEN [b |-> b, id |-> None]
  ELSE The({ [b |-> r.b, id |-> Some(r.id)] : r \in {lower_expr(b, o[1])} })
lower_expr(b, t) ==
  CASE t.k = "Lit" -> alloc_expr(b, [k |-> "Lit", lit |-> t.lit], NoDen)
    [] t.k = "Var" ->
         The({ alloc_expr(v.b, [k |-> "Var", var |-> v.id], resolve_den(b, t.den))
               : v \in {alloc_var(b, t.name)} })
    [] t.k = "Tuple" ->
         The({ alloc_expr(r.b, [k |-> "Tuple", exprs |-> r.ids], NoDen)
               : r \in {lower_exprs(b, t.exprs)} })
    [] t.k = "Struct" ->
         The({ The({ alloc_expr(r.b, [k |-> "Struct", name |-> v.id, fields |-> r.ids], t.den)
                     : r \in {lower_inits(v.b, t.fields)} })
               : v \in {alloc_var(b, t.name)} })
    [] t.k = "Enum" ->
         The({ The({ The({ alloc_expr(r.b, [k |-> "Enum", name |-> v.id, variant |-> w.id,
                                            fields |-> r.ids], t.den)
                           : r \in {lower_inits(w.b, t.fields)} })
                     : w \in {alloc_var(v.b, t.variant)} })
               : v \in {alloc_var(b, t.name)} })
    [] t.k = "If" ->
         The({ The({ The({ alloc_expr(el.b, [k |-> "If", test |-> c.id, then_branch |-> th.id,
                                             else_branch |-> el.id], NoDen)
                           : el \in {lower_opt_expr(th.b, t.else_branch)} })
                     : th \in {lower_expr(c.b, t.then_branch)} })
               : c \in {lower_expr(b, t.test)} })
    [] t.k = "Lambda" ->
         The({ The({ alloc_expr(body.b, [k |-> "Lambda", params |-> ps.ids, expr |-> body.id],
                                NoDen)
                     : body \in {lower_expr(ps.b, t.expr)} })
               : ps \in {lower_params(b, t.params)} })
    [] t.k = "Call" ->
         The({ The({ alloc_expr(as.b, [k |-> "Call", func |-> f.id, args |-> as.ids], NoDen)
                     : as \in {lower_exprs(f.b, t.args)} })
               : f \in {lower_expr(b, t.func)} })
    [] t.k = "Field" ->
         The({ IF t.field.k = "Named"
                 THEN The({ alloc_expr(v.b, [k |-> "Field", expr |-> e.id,
                                             field |-> [k |-> "Named", idx |-> 0,
                                                        name |-> v.id]], NoDen)
                            : v \in {alloc_var(e.b, t.field.name)} })
                 ELSE alloc_expr(e.b, [k |-> "Field", expr |-> e.id,
                                       field |-> [k |-> "Tuple", idx |-> t.field.idx,
                                                  name |-> 0]], NoDen)
               : e \in {lower_expr(b, t.expr)} })
    [] t.k = "Unop" ->
         The({ alloc_expr(e.b, [k |-> "Unop", op |-> t.op, expr |-> e.id], NoDen)
               : e \in {lower_expr(b, t.expr)} })
    [] t.k = "Binop" ->
         The({ The({ alloc_expr(r.b, [k |-> "Binop", lhs |-> l.id, op |-> t.op, rhs |-> r.id],
                                NoDen)
                     : r \in {lower_expr(l.b, t.rhs)} })
               : l \in {lower_expr(b, t.lhs)} })
    [] t.k = "Loop" ->
         The({ alloc_expr(e.b, [k |-> "Loop", expr |-> e.id], NoDen)
               : e \in {lower_expr(b, t.expr)} })
    [] t.k = "Return" ->
         The({ alloc_expr(e.b, [k |-> "Return", payload |-> e.id], NoDen)
               : e \in {lower_opt_expr(b, t.payload)} })
    [] t.k = "Break" ->
         The({ alloc_expr(e.b, [k |-> "Break", payload |-> e.id], NoDen)
               : e \in {lower_opt_expr(b, t.payload)} })
    [] t.k = "Continue" -> alloc_expr(b, [k |-> "Continue"], NoDen)
    [] t.k = "Block" ->
         The({ The({ alloc_expr(e.b, [k |-> "Block", stmts |-> ss.ids, tail |-> e.id], NoDen)
                     : e \in {lower_opt_expr(ss.b, t.tail)} })
               : ss \in {lower_stmts(b, t.stmts)} })
lower_exprs(b, ts) ==
  IF ts = <<>> THEN [b |-> b, ids |-> <<>>]
  ELSE The({ The({ [b |-> r.b, ids |-> <<h.id>> \o r.ids]
                   : r \in {lower_exprs(h.b, Tail(ts))} })
             : h \in {lower_expr(b, Head(ts))} })
lower_inits(b, is) ==
  IF is = <<>> THEN [b |-> b, ids |-> <<>>]
  ELSE The({ The({ The({ [b |-> r.b, ids |-> <<[name |-> v.id, val |-> e.id]>> \o r.ids]
                         : r \in {lower_inits(e.b, Tail(is))} })
                   : e \in {lower_expr(v.b, Head(is).val)} })
             : v \in {alloc_var(b, Head(is).name)} })
\* a let's initializer is lowered before its pattern: the pattern is in
\* scope only in the statements that follow
lower_stmts(b, ss) ==
  IF ss = <<>> THEN [b |-> b, ids |-> <<>>]
  ELSE IF Head(ss).k = "Expr"
    THEN The({ The({ [b |-> r.b, ids |-> <<[k |-> "Expr", expr |-> e.id]>> \o r.ids]
                     : r \in {lower_stmts(e.b, Tail(ss))} })
               : e \in {lower_expr(b, Head(ss).expr)} })
    ELSE The({ The({ The({ The({
                 [b |-> r.b,
                  ids |-> <<[k |-> "Let", pat |-> p.id, ty |-> t.id, expr |-> e.id]>> \o r.ids]
                 : r \in {lower_stmts(p.b, Tail(ss))} })
                 : p \in {lower_pat(t.b, Head(ss).pat)} })
                 : t \in {lower_opt_type(e.b, Head(ss).ty)} })
                 : e \in {lower_expr(b, Head(ss).expr)} })

\* struct and enum fields: [name, ty] terms to StructField { name, ty }
RECURSIVE lower_fields(_, _)
lower_fields(b, fs) ==
  IF fs = <<>> THEN [b |-> b, ids |-> <<>>]
  ELSE The({ The({ The({ [b |-> r.b, ids |-> <<[name |-> v.id, ty |-> t.id]>> \o r.ids]
                         : r \in {lower_fields(t.b, Tail(fs))} })
                   : t \in {lower_type(v.b, Head(fs).ty)} })
             : v \in {alloc_var(b, Head(fs).name)} })
RECURSIVE lower_variants(_, _)
lower_variants(b, vs) ==
  IF vs = <<>> THEN [b |-> b, ids |-> <<>>]
  ELSE The({ The({ The({ [b |-> r.b, ids |-> <<[name |-> v.id, fields |-> f.ids]>> \o r.ids]
                         : r \in {lower_variants(f.b, Tail(vs))} })
                   : f \in {lower_fields(v.b, Head(vs).fields)} })
             : v \in {alloc_var(b, Head(vs).name)} })
RECURSIVE lower_struct_defs(_, _)
lower_struct_defs(b, ds) ==
  IF ds = <<>> THEN [b |-> b, ids |-> <<>>]
  ELSE The({ The({ [b |-> r.b,
                    ids |-> <<[name |-> Head(ds).name, fields |-> f.ids]>> \o r.ids]
                   : r \in {lower_struct_defs(f.b, Tail(ds))} })
             : f \in {lower_fields(b, Head(ds).fields)} })
RECURSIVE lower_enum_defs(_, _)
lower_enum_defs(b, ds) ==
  IF ds = <<>> THEN [b |-> b, ids |-> <<>>]
  ELSE The({ The({ [b |-> r.b,
                    ids |-> <<[name |-> Head(ds).name, variants |-> v.ids]>> \o r.ids]
                   : r \in {lower_enum_defs(v.b, Tail(ds))} })
             : v \in {lower_variants(b, Head(ds).variants)} })
RECURSIVE lower_fn_defs(_, _)
lower_fn_defs(b, ds) ==
  IF ds = <<>> THEN [b |-> b, ids |-> <<>>]
  ELSE The({ The({ The({ The({
         [b |-> r.b,
          ids |-> <<[name |-> Head(ds).name, params |-> ps.ids, ret_type |-> rt.id,
                     expr |-> e.id]>> \o r.ids]
         : r \in {lower_fn_defs(e.b, Tail(ds))} })
         : e \in {lower_expr(rt.b, Head(ds).expr)} })
         : rt \in {lower_opt_type(ps.b, Head(ds).ret_type)} })
         : ps \in {lower_params(b, Head(ds).params)} })

\* A source program [decls, structs, enums, fns] lowered to [module, scopes]
Lower(src) ==
  The({ The({ The({
    [module |-> [decls |-> src.decls,
                 data |-> [fn_defs |-> f.ids, struct_defs |-> s.ids, enum_defs |-> e.ids,
                           exprs |-> f.b.exprs, types |-> f.b.types, pats |-> f.b.pats,
                           vars |-> f.b.vars]],
     scopes |-> [expr |-> f.b.sexpr, type |-> f.b.stype]]
    : f \in {lower_fn_defs(e.b, src.fns)} })
    : e \in {lower_enum_defs(s.b, src.enums)} })
    : s \in {lower_struct_defs(EmptyBuilder, src.structs)} })

FnSrc(name, params, ret_type, body) ==
  [name |-> name, params |-> params, ret_type |-> ret_type, expr |-> body]
DeclFn(id) == [k |-> "Fn", id |-> id]
DeclStruct(id) == [k |-> "Struct", id |-> id]
DeclEnum(id) == [k |-> "Enum", id |-> id]

(***************************************************************************)
(* Builtins (builtins.rs)                                                  *)
(***************************************************************************)
\* Builtin::kind
builtin_kind(b) == IF b = "exit" THEN "Value" ELSE "Type"
\* Builtin::ty
builtin_ty(b) ==
  CASE b = "Bool" -> BOOL
    [] b = "Int" -> INT
    [] b = "Float" -> FLOAT
    [] b = "Char" -> CHAR
    [] b = "Never" -> NEVER
    [] b = "exit" -> function(<<INT>>, NEVER)

(***************************************************************************)
(* Lit, Unop, Binop (infer.rs, the impl blocks at the end)                 *)
(***************************************************************************)
\* Lit::ty
lit_ty(lit) ==
  CASE lit = "Bool" -> BOOL
    [] lit = "Int" -> INT
    [] lit = "Float" -> FLOAT
    [] lit = "Char" -> CHAR

LazyOps == {"And", "Or"}
ArithmeticOps == {"Add", "Sub", "Mul", "Div"}
CmpOps == {"Eq", "NotEq", "Less", "LessEq", "Greater", "GreaterEq"}

\* Unop::lhs_expectation
unop_lhs_expectation(op) == IF op = "Not" THEN BOOL ELSE Unknown
\* Unop::return_type
unop_return_type(op, lhs_type) == IF op = "Not" THEN BOOL ELSE lhs_type
\* Binop::lhs_expectation
binop_lhs_expectation(op) == IF op \in LazyOps THEN BOOL ELSE Unknown
\* rhs_expectation that expects nothing of the RHS of an arithmetic
\* operator whose LHS is not a number
binop_rhs_expectation_numeric(op, lhs_type) ==
  IF op \in LazyOps THEN BOOL
  ELSE IF op \in ArithmeticOps /\ lhs_type \notin {INT, FLOAT} THEN Unknown
  ELSE lhs_type
\* Binop::rhs_expectation
binop_rhs_expectation(op, lhs_type) == IF op \in LazyOps THEN BOOL ELSE lhs_type
\* Binop::return_type
binop_return_type(op, rhs_type) ==
  CASE op \in LazyOps -> BOOL
    [] op \in ArithmeticOps -> rhs_type
    [] op \in CmpOps -> BOOL
    [] op = "Assign" -> UNIT

(***************************************************************************)
(* InferenceResult, ArenaMap, Ctx                                          *)
(***************************************************************************)
\* InferenceResult::default
EmptyResult ==
  [type_of_expr |-> <<>>, type_of_type |-> <<>>, type_of_pat |-> <<>>, type_of_fn |-> <<>>,
   diagnostics |-> <<>>]

\* ArenaMap::insert: a second insert for the same handle overwrites
Insert(m, id, v) == [x \in (DOMAIN m) \cup {id} |-> IF x = id THEN v ELSE m[x]]

Left(id) == [side |-> "Left", id |-> id]
Right(id) == [side |-> "Right", id |-> id]

\* Ctx::new; panicked is "" while the walk runs and the panic message once a
\* todo!() or an index of a missing side-map entry has unwound it; writes
\* counts the inserts into the side-maps
NewCtx ==
  [result |-> EmptyResult, table |-> <<>>, fn_type |-> None, loop_type |-> None,
   panicked |-> "", writes |-> 0]

Ret(c, ty) == [c |-> c, ty |-> ty]
push_diagnostic(c, d) == [c EXCEPT !.result.diagnostics = Append(@, d)]
panic(c, msg) == IF c.panicked = "" THEN [c EXCEPT !.panicked = msg] ELSE c
\* impl Index for ArenaMap: panics when the handle has no entry
index(c, m, id) == IF id \in DOMAIN m THEN Ret(c, m[id]) ELSE Ret(panic(c, "index"), Unknown)

set_expr_type(c, id, ty) == [c EXCEPT !.result.type_of_expr = Insert(@, id, ty),
             !.writes = @ + 1]
set_pat_type(c, id, ty) == [c EXCEPT !.result.type_of_pat = Insert(@, id, ty),
             !.writes = @ + 1]
set_type_type(c, id, ty) == [c EXCEPT !.result.type_of_type = Insert(@, id, ty),
             !.writes = @ + 1]
set_fn_type(c, fn_def, ty) == [c EXCEPT !.result.type_of_fn = Insert(@, fn_def, ty),
             !.writes = @ + 1]

new_type_var(c) == Ret([c EXCEPT !.table = Append(@, Unbound)], Infer(Len(c.table) + 1))

propagate_type_as_far_as_possible(c, ty) == table_propagate_type_as_far_as_possible(c.table, ty)
\* propagate_type_completely that stops at best-effort propagation
propagate_type_best_effort(c, ty) == table_propagate_type_as_far_as_possible(c.table, ty)
propagate_type_completely(c, ty) == propagate_type_completely_inner(c.table, {}, ty)
propagate_fn_type_completely(c, ft) ==
  FnType([i \in 1..Len(ft.params) |-> propagate_type_completely(c, ft.params[i])],
         propagate_type_completely(c, ft.ret))

\* unify that accepts equal types only
unify_equal_only(c, t1, t2) == [c |-> c, ok |-> t1 = t2]
\* Ctx::unify; returns [c, ok]
unify(c, t1, t2) ==
  The({ [c |-> [c EXCEPT !.table = r.table], ok |-> r.ok] : r \in {table_unify(c.table, t1, t2)} })

\* coerce without the Never case
coerce_by_unify(c, from, to) == unify(c, from, to)
\* Ctx::coerce; returns [c, ok]
coerce(c, from, to) == IF from = NEVER THEN [c |-> c, ok |-> TRUE] ELSE unify(c, from, to)

try_to_unify(c, id, expected, got) ==
  The({ CASE ~r.ok ->
               Ret(push_diagnostic(r.c, [k |-> "TypeMismatch", id |-> id,
                                         expected |-> expected, got |-> got]),
                   got)
          [] r.ok /\ expected = Unknown -> Ret(r.c, got)
          [] OTHER -> Ret(r.c, expected)
        : r \in {coerce(c, got, expected)} })

try_to_unify_and_propagate_as_far_as_possible(c, id, expected, got) ==
  The({ Ret(r.c, propagate_type_as_far_as_possible(r.c, r.ty))
        : r \in {try_to_unify(c, id, expected, got)} })

resolve_var_type(c, id, var_id) ==
  LET denotation == scopes.type[id] IN
  CASE denotation.k = "Builtin" /\ builtin_kind(denotation.b) = "Type" ->
         Ret(c, builtin_ty(denotation.b))
    [] denotation.k = "Struct" -> Ret(c, struct_(denotation.id))
    [] denotation.k = "Enum" -> Ret(c, enum_(denotation.id))
    [] OTHER ->
         Ret(push_diagnostic(c, [k |-> "UnboundVar", id |-> Right(id), var |-> var_id,
                                 denotation |-> denotation]),
             Unknown)

RECURSIVE resolve_type(_, _)
RECURSIVE resolve_types(_, _)
resolve_type(c, id) ==
  LET ty == module.data.types[id] IN
  The({ The({ Ret(set_type_type(r.c, id, ty2), ty2)
              : ty2 \in {propagate_type_as_far_as_possible(r.c, r.ty)} })
        : r \in {CASE ty.k = "Infer" -> new_type_var(c)
                   [] ty.k = "Tuple" ->
                        The({ Ret(ts.c, tuple(ts.tys)) : ts \in {resolve_types(c, ty.tys)} })
                   [] ty.k = "Fn" ->
                        The({ The({ Ret(rt.c, function(ps.tys, rt.ty))
                                    : rt \in {resolve_type(ps.c, ty.ret)} })
                              : ps \in {resolve_types(c, ty.params)} })
                   [] ty.k = "Var" -> resolve_var_type(c, id, ty.var)} })
\* tys.iter().map(|ty| self.resolve_type(*ty)).collect()
resolve_types(c, ids) ==
  IF ids = <<>> THEN [c |-> c, tys |-> <<>>]
  ELSE The({ The({ [c |-> r.c, tys |-> <<h.ty>> \o r.tys]
                   : r \in {resolve_types(h.c, Tail(ids))} })
             : h \in {resolve_type(c, Head(ids))} })

resolve_var_expr(c, id, var_id) ==
  LET denotation == scopes.expr[id] IN
  CASE denotation.k = "Local" -> index(c, c.result.type_of_pat, denotation.id)
    [] denotation.k = "Fn" ->
         IF denotation.id \in DOMAIN c.result.type_of_fn
           THEN Ret(c, fn_into(c.result.type_of_fn[denotation.id]))
           ELSE Ret(panic(c, "index"), Unknown)
    [] denotation.k = "Builtin" /\ builtin_kind(denotation.b) = "Value" ->
         Ret(c, builtin_ty(denotation.b))
    [] OTHER ->
         Ret(push_diagnostic(c, [k |-> "UnboundVar", id |-> Left(id), var |-> var_id,
                                 denotation |-> denotation]),
             Unknown)

(***************************************************************************)
(* The walker (impl Ctx, second block).  Once c.panicked is set the stack  *)
(* is unwinding: infer_expr and infer_pat return at once, and the step     *)
(* that made the call drops the context.                                   *)
(***************************************************************************)
\* expectations.iter().chain(repeat(&Unknown)): the i-th expectation
expectation_at(expectations, i) ==
  IF i <= Len(expectations) THEN expectations[i] ELSE Unknown
unwrap_or(o, default) == IF IsSome(o) THEN o[1] ELSE default

is_lvalue(id) == module.data.exprs[id].k \in {"Var", "Field"}

RECURSIVE infer_pat(_, _, _)
RECURSIVE infer_pats(_, _, _, _)
infer_pat(c, expected, id) ==
  IF c.panicked # "" THEN Ret(c, Unknown) ELSE
  LET pat == module.data.pats[id] IN
  The({ The({ try_to_unify_and_propagate_as_far_as_possible(set_pat_type(r.c, id, ty),
                                                            Right(id), expected, ty)
              : ty \in {propagate_type_as_far_as_possible(r.c, r.ty)} })
        : r \in {IF pat.k = "Tuple"
                   THEN The({ Ret(ts.c, tuple(ts.tys))
                              : ts \in {infer_pats(c, unwrap_or(as_tuple(expected), <<>>),
                                                   pat.pats, 1)} })
                   ELSE Ret(c, expected)} })
\* pats.iter().zip(expectations).map(|(pat, expected)| self.infer_pat(expected, *pat))
infer_pats(c, expectations, pats, i) ==
  IF i > Len(pats) THEN [c |-> c, tys |-> <<>>]
  ELSE The({ The({ [c |-> r.c, tys |-> <<h.ty>> \o r.tys]
                   : r \in {infer_pats(h.c, expectations, pats, i + 1)} })
             : h \in {infer_pat(c, expectation_at(expectations, i), pats[i])} })

RECURSIVE infer_expr(_, _, _)
RECURSIVE infer_binding(_, _, _, _)
RECURSIVE infer_bindings(_, _)
RECURSIVE infer_tuple_elems(_, _, _, _)
RECURSIVE infer_tuple_expr(_, _, _)
RECURSIVE infer_struct_expr(_, _, _, _)
RECURSIVE infer_enum_expr(_, _, _, _, _)
RECURSIVE infer_fields(_, _, _, _)
RECURSIVE infer_field_inits(_, _, _, _, _)
RECURSIVE infer_if_expr(_, _, _, _)
RECURSIVE infer_lambda_expr(_, _, _, _)
RECURSIVE infer_call_expr(_, _, _)
RECURSIVE infer_call_args(_, _, _, _)
RECURSIVE infer_field_expr(_, _, _)
RECURSIVE infer_unop_expr(_, _, _)
RECURSIVE infer_binop_expr(_, _, _, _)
RECURSIVE infer_loop_expr(_, _, _)
RECURSIVE infer_return_expr(_, _, _)
RECURSIVE infer_break_expr(_, _, _)
RECURSIVE infer_block_expr(_, _, _, _)
RECURSIVE infer_block_stmts(_, _)

\* with_fn_type(ty, |this| this.infer_expr(expected, expr)): the closure
\* runs with fn_type set, then the old value is put back
RECURSIVE with_fn_type(_, _, _, _)
\* with_fn_type that runs the closure without setting fn_type
with_fn_type_unset(c, ty, expected, expr) == infer_expr(c, expected, expr)
with_fn_type(c, ty, expected, expr) ==
  The({ Ret([ret.c EXCEPT !.fn_type = c.fn_type], ret.ty)
        : ret \in {infer_expr([c EXCEPT !.fn_type = Some(ty)], expected, expr)} })

infer_binding(c, pat, ty, expr) ==
  The({ The({ infer_pat(e.c, propagate_type_as_far_as_possible(e.c, e.ty), pat)
              : e \in {IF IsSome(expr) THEN infer_expr(t.c, t.ty, expr[1]) ELSE t} })
        : t \in {IF IsSome(ty) THEN resolve_type(c, ty[1]) ELSE new_type_var(c)} })
\* params.iter().map(|param| self.infer_binding(param.pat, param.ty, None))
infer_bindings(c, params) ==
  IF params = <<>> THEN [c |-> c, tys |-> <<>>]
  ELSE The({ The({ [c |-> r.c, tys |-> <<h.ty>> \o r.tys]
                   : r \in {infer_bindings(h.c, Tail(params))} })
             : h \in {infer_binding(c, Head(params).pat, Head(params).ty, None)} })

infer_continue_expr(c, parent_expr) ==
  IF c.loop_type = None
    THEN Ret(push_diagnostic(c, [k |-> "BreakNotInLoop", expr |-> parent_expr]), NEVER)
    ELSE Ret(c, NEVER)

infer_expr(c, expected, id) ==
  IF c.panicked # "" THEN Ret(c, Unknown) ELSE
  LET expr == module.data.exprs[id] IN
  The({ IF r.c.panicked # "" THEN Ret(r.c, Unknown) ELSE
        The({ try_to_unify_and_propagate_as_far_as_possible(set_expr_type(r.c, id, ty),
                                                            Left(id), expected, ty)
              : ty \in {propagate_type_as_far_as_possible(r.c, r.ty)} })
        : r \in {CASE expr.k = "Lit" -> Ret(c, lit_ty(expr.lit))
                   [] expr.k = "Var" -> resolve_var_expr(c, id, expr.var)
                   [] expr.k = "Tuple" -> infer_tuple_expr(c, expected, expr.exprs)
                   [] expr.k = "Struct" -> infer_struct_expr(c, id, expr.name, expr.fields)
                   [] expr.k = "Enum" ->
                        infer_enum_expr(c, id, expr.name, expr.variant, expr.fields)
                   [] expr.k = "If" ->
                        infer_if_expr(c, expr.test, expr.then_branch, expr.else_branch)
                   [] expr.k = "Lambda" ->
                        infer_lambda_expr(c, expected, expr.params, expr.expr)
                   [] expr.k = "Call" -> infer_call_expr(c, expr.func, expr.args)
                   [] expr.k = "Field" -> infer_field_expr(c, expr.expr, expr.field)
                   [] expr.k = "Unop" -> infer_unop_expr(c, expr.op, expr.expr)
                   [] expr.k = "Binop" -> infer_binop_expr(c, expr.op, expr.lhs, expr.rhs)
                   [] expr.k = "Loop" -> infer_loop_expr(c, expected, expr.expr)
                   [] expr.k = "Return" -> infer_return_expr(c, id, expr.payload)
                   [] expr.k = "Break" -> infer_break_expr(c, id, expr.payload)
                   [] expr.k = "Continue" -> infer_continue_expr(c, id)
                   [] expr.k = "Block" ->
                        infer_block_expr(c, expected, expr.stmts, expr.tail)} })

\* exprs.iter().zip(expectations).map(|(expr, expected)| self.infer_expr(expected, *expr))
infer_tuple_elems(c, expectations, exprs, i) ==
  IF i > Len(exprs) THEN [c |-> c, tys |-> <<>>]
  ELSE The({ The({ [c |-> r.c, tys |-> <<h.ty>> \o r.tys]
                   : r \in {infer_tuple_elems(h.c, expectations, exprs, i + 1)} })
             : h \in {infer_expr(c, expectation_at(expectations, i), exprs[i])} })
infer_tuple_expr(c, expected, exprs) ==
  The({ Ret(r.c, tuple(r.tys))
        : r \in {infer_tuple_elems(c, unwrap_or(as_tuple(expected), <<>>), exprs, 1)} })

infer_struct_expr(c, expr, name, fields) ==
  LET denotation == scopes.expr[expr] IN
  IF denotation.k = "Struct"
    THEN LET struct_def == module.data.struct_defs[denotation.id]
             struct_type == struct_(denotation.id)
         IN Ret(infer_fields(c, expr, Some(struct_def.fields), fields), struct_type)
    ELSE Ret(infer_fields(c, expr, None, fields), Unknown)

\* iter().find(|x| data[x.name] == name): position of the first element of
\* seq whose name is the string name, 0 when there is none
find_by_name(seq, name) ==
  IF \E i \in 1..Len(seq) : module.data.vars[seq[i].name] = name
    THEN CHOOSE i \in 1..Len(seq) :
           /\ module.data.vars[seq[i].name] = name
           /\ \A j \in 1..(i - 1) : module.data.vars[seq[j].name] # name
    ELSE 0

infer_enum_expr(c, expr, name, variant, fields) ==
  LET denotation == scopes.expr[expr] IN
  IF denotation.k = "Enum"
    THEN LET enum_def == module.data.enum_defs[denotation.id]
             enum_type == enum_(denotation.id)
             found == find_by_name(enum_def.variants, module.data.vars[variant])
         IN IF found = 0
              THEN Ret(panic(c, "No such variant"), enum_type)
              ELSE Ret(infer_fields(c, expr, Some(enum_def.variants[found].fields), fields),
                       enum_type)
    ELSE Ret(infer_fields(c, expr, None, fields), Unknown)

\* the second loop of infer_fields: one MissingField per declared field
\* that no initializer names
RECURSIVE missing_fields(_, _, _, _, _)
missing_fields(c, expr, fields, inits, i) ==
  IF i > Len(fields) THEN c
  ELSE missing_fields(
         IF find_by_name(inits, module.data.vars[fields[i].name]) # 0 THEN c
         ELSE push_diagnostic(c, [k |-> "MissingField", expr |-> expr,
                                  field |-> [k |-> "Named", idx |-> 0,
                                             name |-> fields[i].name]]),
         expr, fields, inits, i + 1)

\* the expected type of initializer init: fields.and_then(..).unwrap_or(Unknown)
expected_of_init(c, fields, init) ==
  LET found == IF IsSome(fields) THEN find_by_name(fields[1], module.data.vars[init.name])
               ELSE 0
  IN CASE fields = None -> Ret(c, Unknown)
       [] IsSome(fields) /\ found = 0 ->
            Ret(push_diagnostic(c, [k |-> "NoSuchField",
                                    field |-> [k |-> "Named", idx |-> 0, name |-> init.name],
                                    expr |-> init.val,
                                    possible_fields |-> Left(fields[1])]),
                Unknown)
       [] OTHER -> index(c, c.result.type_of_type, fields[1][found].ty)

\* the first loop of infer_fields from initializer i on; first_init is the
\* set of keys of the HashMap
infer_field_inits(c, fields, inits, i, first_init) ==
  IF i > Len(inits) \/ c.panicked # "" THEN c
  ELSE IF module.data.vars[inits[i].name] \in first_init
    THEN panic(c, "Duplicate field init")
    ELSE The({ infer_field_inits(infer_expr(e.c, e.ty, inits[i].val).c, fields, inits, i + 1,
                                 first_init \cup {module.data.vars[inits[i].name]})
               : e \in {expected_of_init(c, fields, inits[i])} })

\* returns the context (the method returns ())
infer_fields(c, expr, fields, inits) ==
  The({ IF c1.panicked # "" \/ fields = None THEN c1
        ELSE missing_fields(c1, expr, fields[1], inits, 1)
        : c1 \in {infer_field_inits(c, fields, inits, 1, {})} })

infer_if_expr(c, test, then_branch, else_branch) ==
  The({ IF else_branch = None
          THEN Ret(infer_expr(t.c, Unknown, then_branch).c, UNIT)
          ELSE The({ The({ The({
                 IF u.ok THEN Ret(u.c, th.ty)
                 ELSE Ret(push_diagnostic(u.c, [k |-> "IfBranchMismatch",
                                                then_branch |-> then_branch,
                                                else_branch |-> else_branch[1],
                                                then_ty |-> th.ty, else_ty |-> el.ty]),
                          Unknown)
                 : u \in {unify(el.c, th.ty, el.ty)} })
                 : el \in {infer_expr(th.c, Unknown, else_branch[1])} })
                 : th \in {infer_expr(t.c, Unknown, then_branch)} })
        : t \in {infer_expr(c, BOOL, test)} })

infer_lambda_expr(c, expected, params, body) ==
  The({ The({ The({ The({
    Ret(b.c, fn_into(FnType(ps.tys, rt.ty)))
    : b \in {with_fn_type(u.c, FnType(ps.tys, rt.ty), rt.ty, body)} })
    : u \in {unify(rt.c, fn_into(FnType(ps.tys, rt.ty)), expected)} })
    : rt \in {new_type_var(ps.c)} })
    : ps \in {infer_bindings(c, params)} })

\* for (arg, param) in args.iter().zip(params.iter())
infer_call_args(c, args, params, i) ==
  IF i > Len(args) \/ i > Len(params) THEN c
  ELSE infer_call_args(infer_expr(c, params[i], args[i]).c, args, params, i + 1)
infer_call_expr(c, func, args) ==
  The({ LET ft == as_fn(f.ty) IN
        IF ft = None
          THEN Ret(push_diagnostic(f.c, [k |-> "CalledNonFn", expr |-> func, ty |-> f.ty]),
                   Unknown)
          ELSE Ret(infer_call_args(
                     IF Len(args) # Len(ft[1].params)
                       THEN push_diagnostic(f.c, [k |-> "ArgCountMismatch", expr |-> func,
                                                  ty |-> f.ty,
                                                  expected |-> Len(ft[1].params),
                                                  got |-> Len(args)])
                       ELSE f.c,
                     args, ft[1].params, 1),
                   ft[1].ret)
        : f \in {infer_expr(c, Unknown, func)} })

infer_field_expr(c, base, field) ==
  The({ LET base_type == b.ty IN
        CASE base_type.k = "App" /\ base_type.c = "Tuple" ->
               IF field.k = "Tuple" /\ field.idx < Len(base_type.ps)
                 THEN Ret(b.c, base_type.ps[field.idx + 1])
                 ELSE Ret(push_diagnostic(b.c, [k |-> "NoSuchField", expr |-> base,
                                                possible_fields |-> Right(Len(base_type.ps)),
                                                field |-> field]),
                          Unknown)
          [] base_type.k = "App" /\ base_type.c = "Struct" ->
               LET struct_def == module.data.struct_defs[base_type.id]
                   target == IF field.k = "Named"
                               THEN find_by_name(struct_def.fields, module.data.vars[field.name])
                               ELSE 0
               IN IF target # 0
                    THEN index(b.c, b.c.result.type_of_type, struct_def.fields[target].ty)
                    ELSE Ret(push_diagnostic(b.c, [k |-> "NoSuchField", expr |-> base,
                                                   possible_fields |-> Left(struct_def.fields),
                                                   field |-> field]),
                             Unknown)
          [] OTHER ->
               Ret(push_diagnostic(b.c, [k |-> "NoFields", expr |-> base, ty |-> base_type]),
                   Unknown)
        : b \in {infer_expr(c, Unknown, base)} })

infer_unop_expr(c, op, lhs) ==
  The({ Ret(l.c, unop_return_type(op, l.ty))
        : l \in {infer_expr(c, unop_lhs_expectation(op), lhs)} })

infer_binop_expr(c, op, lhs, rhs) ==
  The({ The({ Ret(r.c, binop_return_type(op, r.ty))
              : r \in {infer_expr(
                         IF l.ty # Unknown /\ binop_rhs_expectation(op, l.ty) = Unknown
                           THEN push_diagnostic(l.c, [k |-> "CannotApplyBinop",
                                                      lhs_type |-> l.ty,
                                                      rhs_type |-> binop_rhs_expectation(op, l.ty),
                                                      op |-> op])
                           ELSE l.c,
                         binop_rhs_expectation(op, l.ty), rhs)} })
        : l \in {infer_expr(IF op = "Assign" /\ ~is_lvalue(lhs)
                              THEN push_diagnostic(c, [k |-> "NotLValue", lhs |-> lhs])
                              ELSE c,
                            binop_lhs_expectation(op), lhs)} })

\* the closure of infer_loop_expr: the body, then this.loop_type.unwrap()
loop_body(c, expected, expr) ==
  The({ IF b.c.loop_type = None THEN Ret(panic(b.c, "unwrap"), Unknown)
        ELSE Ret(b.c, b.c.loop_type[1])
        : b \in {infer_expr(c, expected, expr)} })
\* with_loop_type that leaves loop_type as the closure left it
with_loop_type_unrestored(c, ty, expected, expr) ==
  loop_body([c EXCEPT !.loop_type = Some(ty)], expected, expr)
\* with_loop_type(ty, closure of infer_loop_expr): the closure runs with
\* loop_type set, then the old value is put back
with_loop_type(c, ty, expected, expr) ==
  The({ Ret([ret.c EXCEPT !.loop_type = c.loop_type], ret.ty)
        : ret \in {loop_body([c EXCEPT !.loop_type = Some(ty)], expected, expr)} })
\* infer_loop_expr that enters the loop with Unit for its type
infer_loop_expr_from_unit(c, expected, expr) == with_loop_type(c, UNIT, expected, expr)
infer_loop_expr(c, expected, expr) == with_loop_type(c, NEVER, expected, expr)

infer_return_expr(c, parent_expr, expr) ==
  The({ IF r.c.fn_type = None
          THEN Ret(push_diagnostic(r.c, [k |-> "ReturnNotInFn",
                                         expr |-> unwrap_or(expr, parent_expr)]),
                   NEVER)
          ELSE Ret(try_to_unify_and_propagate_as_far_as_possible(
                     r.c, Left(unwrap_or(expr, parent_expr)), r.c.fn_type[1].ret, r.ty).c,
                   NEVER)
        : r \in {IF IsSome(expr) THEN infer_expr(c, Unknown, expr[1]) ELSE Ret(c, UNIT)} })

infer_break_expr(c, parent_expr, expr) ==
  The({ IF r.c.loop_type = None
          THEN Ret(push_diagnostic(r.c, [k |-> "BreakNotInLoop",
                                         expr |-> unwrap_or(expr, parent_expr)]),
                   NEVER)
          ELSE Ret([r.c EXCEPT !.loop_type = Some(r.ty)], NEVER)
        : r \in {IF IsSome(expr) THEN infer_expr(c, Unknown, expr[1]) ELSE Ret(c, UNIT)} })

infer_block_stmts(c, stmts) ==
  IF stmts = <<>> THEN c
  ELSE infer_block_stmts(
         IF Head(stmts).k = "Expr"
           THEN infer_expr(c, Unknown, Head(stmts).expr).c
           ELSE infer_binding(c, Head(stmts).pat, Head(stmts).ty, Some(Head(stmts).expr)).c,
         Tail(stmts))
infer_block_expr(c, expected, stmts, expr) ==
  IF IsSome(expr) THEN infer_expr(infer_block_stmts(c, stmts), expected, expr[1])
  ELSE Ret(infer_block_stmts(c, stmts), UNIT)

(***************************************************************************)
(* Declarations (infer_module and what it calls) and finish                *)
(***************************************************************************)
infer_struct_decl(c, id) ==
  LET struct_decl == module.data.struct_defs[id] IN
  resolve_types(c, [i \in 1..Len(struct_decl.fields) |-> struct_decl.fields[i].ty]).c

RECURSIVE infer_enum_variants(_, _)
infer_enum_variants(c, variants) ==
  IF variants = <<>> THEN c
  ELSE LET fields == Head(variants).fields IN
       infer_enum_variants(resolve_types(c, [i \in 1..Len(fields) |-> fields[i].ty]).c,
                           Tail(variants))
infer_enum_decl(c, id) == infer_enum_variants(c, module.data.enum_defs[id].variants)

\* infer_fn_decl that does not publish the signature
infer_fn_decl_unpublished(c, fn_id) ==
  LET fn_decl == module.data.fn_defs[fn_id] IN
  The({ The({ ret.c
              : ret \in {IF IsSome(fn_decl.ret_type)
                           THEN resolve_type(params.c, fn_decl.ret_type[1])
                           ELSE Ret(params.c, UNIT)} })
        : params \in {infer_bindings(c, fn_decl.params)} })
infer_fn_decl(c, fn_id) ==
  LET fn_decl == module.data.fn_defs[fn_id] IN
  The({ The({ set_fn_type(ret.c, fn_id, FnType(params.tys, ret.ty))
              : ret \in {IF IsSome(fn_decl.ret_type)
                           THEN resolve_type(params.c, fn_decl.ret_type[1])
                           ELSE Ret(params.c, UNIT)} })
        : params \in {infer_bindings(c, fn_decl.params)} })

infer_decl(c, decl) ==
  CASE decl.k = "Struct" -> infer_struct_decl(c, decl.id)
    [] decl.k = "Enum" -> infer_enum_decl(c, decl.id)
    [] decl.k = "Fn" -> infer_fn_decl(c, decl.id)

\* infer_fn_body that stores the signature again once the body is typed
infer_fn_body_republishing(c, fn_id) ==
  LET fn_decl == module.data.fn_defs[fn_id] IN
  IF fn_id \notin DOMAIN c.result.type_of_fn THEN Ret(panic(c, "index"), Unknown) ELSE
  LET ft == c.result.type_of_fn[fn_id] IN
  The({ The({ Ret(set_fn_type(r.c, fn_id, ft), r.ty)
              : r \in {try_to_unify_and_propagate_as_far_as_possible(
                          body_type.c, Left(fn_decl.expr), ft.ret, body_type.ty)} })
        : body_type \in {with_fn_type(c, ft, Unknown, fn_decl.expr)} })
infer_fn_body(c, fn_id) ==
  LET fn_decl == module.data.fn_defs[fn_id] IN
  IF fn_id \notin DOMAIN c.result.type_of_fn THEN Ret(panic(c, "index"), Unknown) ELSE
  LET ft == c.result.type_of_fn[fn_id] IN
  The({ try_to_unify_and_propagate_as_far_as_possible(body_type.c, Left(fn_decl.expr), ft.ret,
                                                      body_type.ty)
        : body_type \in {with_fn_type(c, ft, Unknown, fn_decl.expr)} })

infer_decl_body(c, decl) == IF decl.k = "Fn" THEN infer_fn_body(c, decl.id).c ELSE c

Min(S) == CHOOSE x \in S : \A y \in S : x <= y

\* the loop of finish without the was_unknown test
RECURSIVE finish_side_map_any_unknown(_, _, _, _)
finish_side_map_any_unknown(c, kind, todo, r) ==
  IF todo = {} THEN r
  ELSE The({ The({
         finish_side_map_any_unknown(c, kind, todo \ {id},
                         [map |-> [r.map EXCEPT ![id] = ty],
                          diagnostics |->
                            IF ty = Unknown
                              THEN Append(r.diagnostics, [k |-> "InferenceFail",
                                                          id |-> [k |-> kind, id |-> id]])
                              ELSE r.diagnostics])
         : ty \in {propagate_type_completely(c, r.map[id])} })
         : id \in {Min(todo)} })

\* one of the three loops of finish over a side-map, in handle order; todo
\* are the handles still to visit, r = [map, diagnostics]
RECURSIVE finish_side_map(_, _, _, _)
finish_side_map(c, kind, todo, r) ==
  IF todo = {} THEN r
  ELSE The({ The({
         finish_side_map(c, kind, todo \ {id},
                         [map |-> [r.map EXCEPT ![id] = ty],
                          diagnostics |->
                            IF ~(r.map[id] = Unknown) /\ ty = Unknown
                              THEN Append(r.diagnostics, [k |-> "InferenceFail",
                                                          id |-> [k |-> kind, id |-> id]])
                              ELSE r.diagnostics])
         : ty \in {propagate_type_completely(c, r.map[id])} })
         : id \in {Min(todo)} })

\* Ctx::finish applied to the side-maps res, with the table of c
finish_result(c, res) ==
  The({ The({ The({
    [type_of_expr |-> e.map, type_of_type |-> t.map, type_of_pat |-> p.map,
     type_of_fn |-> [id \in DOMAIN res.type_of_fn |->
                       propagate_fn_type_completely(c, res.type_of_fn[id])],
     diagnostics |-> p.diagnostics]
    : p \in {finish_side_map(c, "Pat", DOMAIN res.type_of_pat,
                             [map |-> res.type_of_pat, diagnostics |-> t.diagnostics])} })
    : t \in {finish_side_map(c, "Type", DOMAIN res.type_of_type,
                             [map |-> res.type_of_type, diagnostics |-> e.diagnostics])} })
    : e \in {finish_side_map(c, "Expr", DOMAIN res.type_of_expr,
                             [map |-> res.type_of_expr, diagnostics |-> res.diagnostics])} })
\* finish that hands the result back as the walk left it
finish_unpropagated(c) == c.result
finish(c) == finish_result(c, c.result)

(***************************************************************************)
(* Input modules                                                           *)
(***************************************************************************)
StructS == [name |-> "S", fields |-> <<[name |-> "x", ty |-> TyInt], [name |-> "y", ty |-> TyInt]>>]
EnumE ==
  [name |-> "E",
   variants |-> <<[name |-> "A", fields |-> <<[name |-> "a", ty |-> TyInt]>>],
                  [name |-> "B", fields |-> <<>>]>>]

\* the concrete scenarios of the specification (section 8)
Scenario1 ==
  [decls |-> <<DeclFn(1), DeclFn(2)>>, structs |-> <<>>, enums |-> <<>>,
   fns |-> <<FnSrc("id", <<TParam(PVar("x"), None)>>, None, TVar("x", DLocal("x"))),
             FnSrc("main", <<>>, None, TCall(TVar("id", DFn(1)), <<TLit("Bool")>>))>>]
Scenario2 ==
  [decls |-> <<DeclFn(1)>>, structs |-> <<>>, enums |-> <<>>,
   fns |-> <<FnSrc("f", <<>>, None, TIf(TLit("Bool"), TLit("Int"), Some(TLit("Char"))))>>]
Scenario3 ==
  [decls |-> <<DeclFn(1)>>, structs |-> <<>>, enums |-> <<>>,
   fns |-> <<FnSrc("g", <<>>, None,
                   TBinop("Add", TFieldIdx(TTuple(<<TLit("Int"), TLit("Bool")>>), 0),
                                 TFieldIdx(TTuple(<<TLit("Int"), TLit("Bool")>>), 1)))>>]
Scenario4 ==
  [decls |-> <<DeclFn(1)>>, structs |-> <<>>, enums |-> <<>>,
   fns |-> <<FnSrc("h", <<>>, Some(TyInt), TLoop(TBreak(Some(TLit("Int")))))>>]
Scenario5 ==
  [decls |-> <<DeclStruct(1), DeclFn(1)>>, structs |-> <<StructS>>, enums |-> <<>>,
   fns |-> <<FnSrc("k", <<>>, None,
                   TStruct("S", DStruct(1),
                           <<TInit("x", TLit("Int")), TInit("z", TLit("Int"))>>))>>]
Scenario6 ==
  [decls |-> <<DeclFn(1)>>, structs |-> <<>>, enums |-> <<>>,
   fns |-> <<FnSrc("r", <<>>, Some(TyBool), TReturn(Some(TLit("Int"))))>>]
\* two functions that call each other
Scenario7 ==
  [decls |-> <<DeclFn(1), DeclFn(2)>>, structs |-> <<>>, enums |-> <<>>,
   fns |-> <<FnSrc("a", <<>>, Some(TyInt), TCall(TVar("b", DFn(2)), <<>>)),
             FnSrc("b", <<>>, Some(TyInt), TCall(TVar("a", DFn(1)), <<>>))>>]
Scenarios == {Scenario1, Scenario2, Scenario3, Scenario4, Scenario5, Scenario6, Scenario7}

\* names in scope in the body of f: its parameter p, the function g
\* declared after f, the builtin exit, and the unbound name u
VarP == TVar("p", DLocal("p"))
VarG == TVar("g", DFn(2))
VarExit == TVar("exit", DBuiltin("exit"))
VarU == TVar("u", NoDen)
LitInt == TLit("Int")
LitBool == TLit("Bool")

RECURSIVE SeqsOfLen(_, _)
SeqsOfLen(K, m) == IF m = 0 THEN {<<>>} ELSE {Append(s, a) : s \in SeqsOfLen(K, m - 1), a \in K}
SeqsUpTo(K, n) == UNION {SeqsOfLen(K, m) : m \in 0..n}

\* operands: a literal of two types, a local, an unbound name (Unknown) and
\* a diverging expression (Never)
Operands == {LitInt, LitBool, VarP, VarU, TReturn(None)}
Atoms == Operands \cup {VarG, VarExit, TContinue, TBreak(None)}

Calls ==
  {TCall(f, args) : f \in {VarG, VarExit, VarU, VarP, LitInt},
                    args \in SeqsUpTo({LitInt, LitBool, VarU, TReturn(None)}, MaxArgs)}
StructInits ==
  SeqsUpTo({TInit("x", LitInt), TInit("x", LitBool), TInit("y", LitInt), TInit("z", VarU)},
           MaxInits)
EnumInits == SeqsUpTo({TInit("a", LitInt), TInit("a", LitBool), TInit("b", LitInt)}, MaxInits)
Literals ==
  {TStruct("S", den, inits) : den \in {DStruct(1), NoDen}, inits \in StructInits}
  \cup {TEnum("E", DEnum(1), v, inits) : v \in {"A", "B", "C"}, inits \in EnumInits}
  \cup {TEnum("E", NoDen, "A", inits) : inits \in EnumInits}
PairIB == TTuple(<<LitInt, LitBool>>)
LitS == TStruct("S", DStruct(1), <<TInit("x", LitInt), TInit("y", LitInt)>>)
Fields ==
  {TFieldIdx(e, i) : e \in Operands \cup {PairIB, LitS}, i \in {0, 2}}
  \cup {TFieldNamed(e, n) : e \in Operands \cup {PairIB, LitS}, n \in {"x", "z"}}
Ops ==
  {TUnop(op, e) : op \in {"Not", "Sub"}, e \in Operands}
  \cup {TBinop(op, l, r) : op \in {"And", "Add", "Eq", "Assign"}, l \in Operands, r \in Operands}
Tuples == {TTuple(es) : es \in SeqsUpTo({LitInt, VarP, VarU, TReturn(None)}, 2)}
Jumps ==
  {TReturn(Some(e)) : e \in Operands} \cup {TBreak(Some(e)) : e \in Operands}
  \cup {TLoop(e) : e \in Operands \cup {TContinue, TBreak(None), TBreak(Some(LitInt)),
                                      TLoop(TBreak(Some(LitBool)))}}
Ifs ==
  {TIf(t, a, b) : t \in {LitBool, LitInt, VarU}, a \in Operands,
                  b \in {None} \cup {Some(e) : e \in Operands}}
VarX == TVar("x", DLocal("x"))
Lets ==
  {TLet(PVar("x"), ty, e) : ty \in {None, Some(TyInt), Some(TyInfer)}, e \in Operands}
  \cup {TLet(PTuple(<<PVar("x"), PIgnore>>), ty, e) :
          ty \in {None, Some(TyTuple(<<TyInt, TyInfer>>))}, e \in {PairIB, LitInt}}
Blocks ==
  {TBlock(<<l>>, tail) : l \in Lets, tail \in {None, Some(VarX)}}
  \cup {TBlock(<<TStmtExpr(e)>>, tail) : e \in Operands, tail \in {None, Some(LitInt)}}
  \cup {TBlock(<<>>, None)}
Lambdas ==
  {TLambda(ps, body) :
     ps \in {<<>>, <<TParam(PVar("x"), None)>>, <<TParam(PVar("x"), Some(TyInt))>>},
     body \in {LitInt, VarU, TReturn(None), TReturn(Some(LitBool)), TBreak(None)}}
  \cup {TLambda(<<TParam(PVar("x"), None)>>, VarX)}

Level1 == Calls \cup Literals \cup Fields \cup Ops \cup Tuples \cup Jumps \cup Ifs \cup Blocks
          \cup Lambdas
\* the expressions put in a context: one or two of each shape
Inner ==
  Atoms
  \cup {TCall(VarG, <<LitInt>>), TCall(VarU, <<LitInt>>), TCall(VarExit, <<LitInt>>),
        TCall(VarG, <<LitInt, LitBool>>), TCall(TLambda(<<TParam(PVar("x"), None)>>, VarX),
                                                <<LitInt>>),
        LitS, TEnum("E", DEnum(1), "C", <<>>), PairIB,
        TFieldNamed(VarU, "x"), TFieldNamed(LitS, "x"), TFieldIdx(PairIB, 1),
        TBinop("Add", LitInt, LitBool), TBinop("Eq", VarP, LitInt), TUnop("Not", VarU),
        TLoop(TBreak(Some(LitInt))), TLoop(LitInt), TBreak(Some(LitInt)),
        TReturn(Some(LitInt)), TReturn(Some(LitBool)),
        TIf(LitBool, LitInt, Some(LitBool)), TIf(LitBool, VarU, Some(LitInt)),
        TIf(LitBool, LitInt, None),
        TBlock(<<TLet(PVar("x"), None, VarU)>>, Some(VarX)),
        TLambda(<<TParam(PVar("x"), None)>>, VarX),
        TLambda(<<>>, TReturn(Some(LitBool)))}
Level2 ==
  {TLoop(e) : e \in Inner}
  \cup {TLoop(TBlock(<<TStmtExpr(e)>>, Some(TBreak(None)))) : e \in Inner}
  \cup {TCall(VarG, <<e>>) : e \in Inner}
  \cup {TCall(e, <<LitInt>>) : e \in Inner}
  \cup {TBlock(<<TLet(PVar("x"), Some(TyInt), e)>>, Some(VarX)) : e \in Inner}
  \cup {TBlock(<<TLet(PVar("x"), None, e)>>, Some(TCall(VarX, <<LitInt>>))) : e \in Inner}
  \cup {TIf(LitBool, e, Some(LitInt)) : e \in Inner}
  \cup {TIf(e, LitInt, Some(d)) : e \in Inner, d \in {VarU, TReturn(None)}}
  \cup {TLambda(<<>>, e) : e \in Inner}
  \cup {TBinop(op, e, LitInt) : op \in {"Add", "And"}, e \in Inner}
  \cup {TBinop("Add", LitInt, e) : e \in Inner}
  \cup {TFieldIdx(e, 0) : e \in Inner}
  \cup {TTuple(<<e, LitInt>>) : e \in Inner}
  \cup {TReturn(Some(e)) : e \in Inner}
\* jumps across a function or loop boundary: a return after a lambda that
\* returns, two returns in one lambda, a break in a lambda in a loop, a
\* break after an inner loop
Nested ==
  {TBlock(<<TStmtExpr(TLambda(<<>>, TReturn(Some(LitBool))))>>, Some(TReturn(Some(LitInt)))),
   TLambda(<<>>, TBlock(<<TStmtExpr(TReturn(Some(LitBool)))>>, Some(TReturn(Some(LitInt))))),
   TLambda(<<>>, TBlock(<<TStmtExpr(TReturn(Some(LitBool)))>>, Some(LitInt))),
   TLoop(TLambda(<<>>, TBreak(Some(LitInt)))),
   TLoop(TBlock(<<TStmtExpr(TLoop(TBreak(Some(LitBool))))>>, Some(TBreak(Some(LitInt))))),
   TLoop(TLoop(TLoop(TBreak(Some(LitInt)))))}
Bodies == Atoms \cup Level1 \cup Level2 \cup Nested

FnG == FnSrc("g", <<TParam(PVar("q"), Some(TyInt))>>, Some(TyBool), LitBool)
\* struct S { x: Int, y: Int }  enum E { A { a: Int }, B {} }
\* fn f(p) = body  or  fn f(p: Int) -> Int = body;  fn g(q: Int) -> Bool = true
Program(annotated, body) ==
  [decls |-> <<DeclStruct(1), DeclEnum(1), DeclFn(1), DeclFn(2)>>,
   structs |-> <<StructS>>, enums |-> <<EnumE>>,
   fns |-> <<IF annotated
               THEN FnSrc("f", <<TParam(PVar("p"), Some(TyInt))>>, Some(TyInt), body)
               ELSE FnSrc("f", <<TParam(PVar("p"), None)>>, None, body),
             FnG>>]

Sources == Scenarios \cup {Program(annotated, body) : annotated \in BOOLEAN, body \in Bodies}

(***************************************************************************)
(* The state machine: infer(module, scopes)                                *)
(***************************************************************************)
Ctx == [result |-> result, table |-> table, fn_type |-> fn_type, loop_type |-> loop_type,
        panicked |-> panicked, writes |-> writes]

Init ==
  /\ \E src \in Sources :
       \E l \in {Lower(src)} : module = l.module /\ scopes = l.scopes
  /\ result = NewCtx.result
  /\ table = NewCtx.table
  /\ fn_type = NewCtx.fn_type
  /\ loop_type = NewCtx.loop_type
  /\ panicked = NewCtx.panicked
  /\ writes = NewCtx.writes
  /\ pc = "infer_decl"
  /\ decl_idx = 1
  /\ output = None

\* the context c after a step of infer_module that moves on to (next_pc,
\* next_idx); a panicking step drops the context and ends the run
Continue(c, next_pc, next_idx) ==
  IF c.panicked # ""
    THEN /\ pc' = "panicked"
         /\ panicked' = c.panicked
         /\ UNCHANGED <<result, table, fn_type, loop_type, decl_idx, writes>>
    ELSE /\ result' = c.result
         /\ table' = c.table
         /\ fn_type' = c.fn_type
         /\ loop_type' = c.loop_type
         /\ writes' = c.writes
         /\ pc' = next_pc
         /\ decl_idx' = next_idx
         /\ UNCHANGED panicked

\* pass 1 of infer_module: infer_decl for the next declaration
InferDecl ==
  /\ pc = "infer_decl"
  /\ \E c \in {infer_decl(Ctx, module.decls[decl_idx])} :
     IF decl_idx < Len(module.decls)
       THEN Continue(c, "infer_decl", decl_idx + 1)
       ELSE Continue(c, "infer_decl_body", 1)
  /\ UNCHANGED <<module, scopes, output>>

\* pass 2 of infer_module: infer_decl_body for the next declaration
InferDeclBody ==
  /\ pc = "infer_decl_body"
  /\ \E c \in {infer_decl_body(Ctx, module.decls[decl_idx])} :
     IF decl_idx < Len(module.decls)
       THEN Continue(c, "infer_decl_body", decl_idx + 1)
       ELSE Continue(c, "finish", 1)
  /\ UNCHANGED <<module, scopes, output>>

\* ctx.finish(): the result is taken out of the context and returned
Finish ==
  /\ pc = "finish"
  /\ output' = Some(finish(Ctx))
  /\ result' = EmptyResult
  /\ pc' = "done"
  /\ UNCHANGED <<module, scopes, table, fn_type, loop_type, decl_idx, panicked, writes>>

Next == InferDecl \/ InferDeclBody \/ Finish

Spec == Init /\ [][Next]_vars

(***************************************************************************)
(* Properties of infer                                                     *)
(***************************************************************************)
Range(f) == {f[x] : x \in DOMAIN f}
\* does ty contain an Infer(_) node at any depth
RECURSIVE has_infer(_)
has_infer(ty) == ty.k = "Infer" \/ \E i \in 1..Len(ty.ps) : has_infer(ty.ps[i])
\* the positions of the diagnostics of one kind
OfKind(diags, kind) == {i \in 1..Len(diags) : diags[i].k = kind}
\* the types at hand in a state: those stored so far, the variables of the
\* table and a few fixed shapes
TypesAtHand ==
  Range(result.type_of_expr) \cup Range(result.type_of_type) \cup Range(result.type_of_pat)
  \cup {Infer(v) : v \in 1..Len(table)}
  \cup {Unknown, NEVER, UNIT, INT, BOOL, tuple(<<INT, Unknown>>), function(<<INT>>, NEVER)}

\* C1 (Totality): once infer has returned, every handle of the expression,
\* type and pattern arenas has an entry in type_of_expr, type_of_type and
\* type_of_pat, the arguments of a call whose callee is not a function and
\* the surplus arguments of a call included.
C1_Totality ==
  pc = "done" =>
    /\ DOMAIN output[1].type_of_expr = 1..Len(module.data.exprs)
    /\ DOMAIN output[1].type_of_type = 1..Len(module.data.types)
    /\ DOMAIN output[1].type_of_pat = 1..Len(module.data.pats)

\* C2 (Finalization): in the result returned by finish no type of
\* type_of_expr, type_of_type, type_of_pat, and no parameter or return type
\* of type_of_fn, contains an Infer(_) node at any depth.
C2_Finalization ==
  pc = "done" =>
    /\ \A ty \in Range(output[1].type_of_expr) \cup Range(output[1].type_of_type)
                 \cup Range(output[1].type_of_pat) : ~has_infer(ty)
    /\ \A ft \in Range(output[1].type_of_fn) : ~has_infer(fn_into(ft))
\* a finished run in which finish turned a stored type that was a variable
\* into Unknown, and kept a function type built around a variable Infer-free
C2_Witness ==
  /\ pc = "done"
  /\ OfKind(output[1].diagnostics, "InferenceFail") # {}
  /\ \E v \in 1..Len(table) : table[v].k = "Unbound"
  /\ \E ty \in Range(output[1].type_of_expr) : ty.k = "App" /\ ty.c = "Fn"

\* C3 (inference never aborts): for every module infer runs to completion;
\* no typing fault, an enum literal naming an undeclared variant included,
\* ends in a panic.
C3_NeverAborts == pc # "panicked"

\* C4 (duplicate initializer): two initializers with one field name in a
\* struct or enum literal make infer_fields append a diagnostic and go on;
\* it does not panic.
C4_DuplicateInitNoPanic == panicked # "Duplicate field init"

Absorbed(r) ==
  r.c.table = table /\ Len(r.c.result.diagnostics) = Len(result.diagnostics)

\* C6 (Unknown absorption): a try_to_unify with expected = Unknown or
\* got = Unknown succeeds, appends no diagnostic and leaves every binding of
\* the table as it was.
C6_UnknownAbsorption ==
  /\ \A T \in TypesAtHand :
       /\ Absorbed(try_to_unify(Ctx, Left(1), Unknown, T))
       /\ Absorbed(try_to_unify(Ctx, Left(1), T, Unknown))
  /\ \A i \in OfKind(result.diagnostics, "TypeMismatch") :
       result.diagnostics[i].expected # Unknown /\ result.diagnostics[i].got # Unknown
\* the walk is over, the table holds a binding and some expression was
\* typed Unknown where a type was expected
C6_Witness ==
  /\ pc = "finish"
  /\ \E v \in 1..Len(table) : table[v].k = "App"
  /\ Unknown \in Range(result.type_of_expr)
  /\ OfKind(result.diagnostics, "UnboundVar") # {}

\* C7 (one primary diagnostic per faulted subtree): an expression that
\* consumes the Unknown of a faulted subexpression, a call as its callee or
\* a field access as its base, emits no diagnostic on its account.
C7_OnePrimaryDiagnostic ==
  pc = "done" =>
    /\ \A i \in OfKind(output[1].diagnostics, "CalledNonFn") :
         output[1].diagnostics[i].ty # Unknown
    /\ \A i \in OfKind(output[1].diagnostics, "NoFields") :
         output[1].diagnostics[i].ty # Unknown

\* C9 (idempotence of finalization): finish's propagation applied a second
\* time to a finalized result changes no stored type and no function
\* signature, and emits no further InferenceFail.
C9_FinishIdempotent ==
  pc = "done" =>
    \E again \in {finish_result(Ctx, output[1])} :
      /\ again.type_of_expr = output[1].type_of_expr
      /\ again.type_of_type = output[1].type_of_type
      /\ again.type_of_pat = output[1].type_of_pat
      /\ again.type_of_fn = output[1].type_of_fn
      /\ Len(again.diagnostics) = Len(output[1].diagnostics)
\* a finalized result with an Unknown entry (which a second pass visits
\* again) next to a function type with parameters
C9_Witness ==
  /\ pc = "done"
  /\ Unknown \in Range(output[1].type_of_pat)
  /\ \E ty \in Range(output[1].type_of_expr) : ty.k = "App" /\ ty.c = "Fn" /\ Len(ty.ps) > 1

\* the entries of a side-map that finish turns from not Unknown to Unknown
BecameUnknown(kind, before, after) ==
  {[k |-> kind, id |-> id] : id \in {x \in DOMAIN before : before[x] # Unknown /\ after[x] = Unknown}}
\* the sites named by the InferenceFail diagnostics
InferenceFailSites(diags) == {diags[i].id : i \in OfKind(diags, "InferenceFail")}

\* C10 (InferenceFail): the walk emits no InferenceFail; finish emits one
\* for an entry of type_of_expr, type_of_type or type_of_pat exactly when
\* the stored value was not Unknown and the finalized value is Unknown, once
\* per such entry.
C10_InferenceFail ==
  [][/\ OfKind(result.diagnostics, "InferenceFail") = {}
     /\ (pc = "finish" /\ pc' = "done") =>
          /\ InferenceFailSites(output'[1].diagnostics)
               = BecameUnknown("Expr", result.type_of_expr, output'[1].type_of_expr)
                 \cup BecameUnknown("Type", result.type_of_type, output'[1].type_of_type)
                 \cup BecameUnknown("Pat", result.type_of_pat, output'[1].type_of_pat)
          /\ Cardinality(OfKind(output'[1].diagnostics, "InferenceFail"))
               = Cardinality(InferenceFailSites(output'[1].diagnostics))]_vars
\* a finalized result with an InferenceFail and with an Unknown expression
\* (Unknown before finish already) that has none
C10_Witness ==
  /\ pc = "done"
  /\ InferenceFailSites(output[1].diagnostics) # {}
  /\ \E id \in DOMAIN output[1].type_of_expr :
       /\ output[1].type_of_expr[id] = Unknown
       /\ [k |-> "Expr", id |-> id] \notin InferenceFailSites(output[1].diagnostics)

\* C11 (suppression for function signatures): for a function parameter
\* without a type annotation whose type nothing constrains (its final type
\* in type_of_fn is Unknown), the result holds no InferenceFail for that
\* parameter's pattern.
C11_SignatureSuppression ==
  pc = "done" =>
    \A fn \in DOMAIN module.data.fn_defs :
      \A i \in 1..Len(module.data.fn_defs[fn].params) :
        \E param \in {module.data.fn_defs[fn].params[i]} :
          (param.ty = None /\ output[1].type_of_fn[fn].params[i] = Unknown)
            => [k |-> "Pat", id |-> param.pat] \notin InferenceFailSites(output[1].diagnostics)

\* C12 (argument types flow back into an unannotated callee): for
\* fn id(x) = x  fn main() = id(true)  inference emits no diagnostic, and
\* the final types of id's parameter pattern, of id's body and of main's
\* body are Bool.
C12_IdOfTrue ==
  (pc = "done" /\ Len(module.data.fn_defs) = 2 /\ module.data.fn_defs[1].name = "id") =>
    /\ output[1].diagnostics = <<>>
    /\ output[1].type_of_pat[module.data.fn_defs[1].params[1].pat] = BOOL
    /\ output[1].type_of_expr[module.data.fn_defs[1].expr] = BOOL
    /\ output[1].type_of_expr[module.data.fn_defs[2].expr] = BOOL

\* C13 (binary operator result type): the type synthesized for a binary
\* expression is Bool for a comparison or lazy-bool operator, Unit for an
\* assignment and the type of the LHS operand for an arithmetic operator,
\* also when the RHS operand does not unify with the LHS type.
C13_BinopResultType ==
  pc = "done" =>
    \A id \in DOMAIN output[1].type_of_expr :
      \E e \in {module.data.exprs[id]} :
        e.k = "Binop" =>
          output[1].type_of_expr[id] =
            CASE e.op \in CmpOps \cup LazyOps -> BOOL
              [] e.op = "Assign" -> UNIT
              [] OTHER -> output[1].type_of_expr[e.lhs]

\* the handles of the field annotations of every declared struct and enum
FieldAnnotations ==
  UNION {{d.fields[i].ty : i \in 1..Len(d.fields)} : d \in Range(module.data.struct_defs)}
  \cup UNION {{v.fields[i].ty : i \in 1..Len(v.fields)} :
                v \in UNION {Range(module.data.enum_defs[d].variants) :
                               d \in DOMAIN module.data.enum_defs}}

\* C14 (two-pass ordering): from the start of pass 2 on, type_of_fn holds
\* the signature of every declared function and type_of_type the type of
\* every struct and enum field annotation; a reference to a function,
\* declared earlier or later, gets that function's signature as its type,
\* and no lookup in a side-map finds an entry missing.
C14_TwoPassOrdering ==
  /\ pc \in {"infer_decl_body", "finish"} =>
       /\ DOMAIN result.type_of_fn = DOMAIN module.data.fn_defs
       /\ FieldAnnotations \subseteq DOMAIN result.type_of_type
  /\ panicked # "index"
  /\ pc = "done" =>
       \A id \in DOMAIN output[1].type_of_expr :
         (module.data.exprs[id].k = "Var" /\ scopes.expr[id].k = "Fn") =>
           output[1].type_of_expr[id] = fn_into(output[1].type_of_fn[scopes.expr[id].id])
\* the walk is over and the body of the first function referred to the
\* second function, declared after it, and got its signature
C14_Witness ==
  /\ pc = "finish"
  /\ \E id \in DOMAIN result.type_of_expr :
       /\ module.data.exprs[id].k = "Var"
       /\ scopes.expr[id].k = "Fn"
       /\ scopes.expr[id].id = 2
       /\ id <= module.data.fn_defs[1].expr
       /\ result.type_of_expr[id] = fn_into(result.type_of_fn[2])

\* C15 (save/restore discipline): loop_type after a loop expression is
\* elaborated is what it was before, fn_type after a lambda or a function
\* body is elaborated is what it was before, whatever the two were and
\* whatever jumps the expression holds; both are None between the steps of
\* infer_module and when finish runs.
C15_SaveRestore ==
  /\ fn_type = None /\ loop_type = None
  /\ pc = "finish" =>
       \A lt \in {None, Some(INT)}, ft \in {None, Some(FnType(<<>>, INT))} :
         \E c \in {[Ctx EXCEPT !.loop_type = lt, !.fn_type = ft]} :
           /\ \A id \in DOMAIN module.data.exprs :
                module.data.exprs[id].k \in {"Loop", "Lambda"} =>
                  \E r \in {infer_expr(c, Unknown, id).c} :
                    r.panicked = "" =>
                      /\ module.data.exprs[id].k = "Loop" => r.loop_type = lt
                      /\ r.fn_type = ft
           /\ \A fn \in DOMAIN module.data.fn_defs :
                \E r \in {infer_fn_body(c, fn).c} : r.panicked = "" => r.fn_type = ft
\* the walk is over and went through a loop around a loop with a break:
\* the inner loop has the type of the break's payload, the outer loop still
\* the Never it was entered with
C15_Witness ==
  /\ pc = "finish"
  /\ \E id \in DOMAIN result.type_of_expr :
       /\ module.data.exprs[id].k = "Loop"
       /\ module.data.exprs[module.data.exprs[id].expr].k = "Loop"
       /\ result.type_of_expr[module.data.exprs[id].expr] = BOOL
       /\ result.type_of_expr[id] = NEVER

Max(S) == CHOOSE x \in S : \A y \in S : y <= x
\* the expressions an expression holds directly
children(id) ==
  LET e == module.data.exprs[id] IN
  CASE e.k \in {"Lit", "Var", "Continue"} -> {}
    [] e.k = "Tuple" -> Range(e.exprs)
    [] e.k \in {"Struct", "Enum"} -> {e.fields[i].val : i \in 1..Len(e.fields)}
    [] e.k = "If" -> {e.test, e.then_branch} \cup Range(e.else_branch)
    [] e.k = "Call" -> {e.func} \cup Range(e.args)
    [] e.k \in {"Lambda", "Field", "Unop", "Loop"} -> {e.expr}
    [] e.k = "Binop" -> {e.lhs, e.rhs}
    [] e.k \in {"Return", "Break"} -> Range(e.payload)
    [] e.k = "Block" -> {e.stmts[i].expr : i \in 1..Len(e.stmts)} \cup Range(e.tail)
\* the break expressions at or below id that target the loop around id:
\* those not inside a loop below id (a lambda does not reset loop_type)
RECURSIVE breaks_of(_)
breaks_of(id) ==
  IF module.data.exprs[id].k = "Loop" THEN {}
  ELSE (IF module.data.exprs[id].k = "Break" THEN {id} ELSE {})
       \cup UNION {breaks_of(ch) : ch \in children(id)}
\* the breaks outside every loop
breaks_outside_loops == UNION {breaks_of(fn.expr) : fn \in Range(module.data.fn_defs)}

\* C16 (loop typing): a loop expression is typed Never when no break that
\* targets it was elaborated, and else with the type of the payload of the
\* last such break elaborated (Unit without payload; handles are numbered in
\* the order elaboration completes); break and continue expressions are
\* typed Never; a break gets a BreakNotInLoop exactly when it is outside
\* every loop; fn h() -> Int = loop { break 7 } has no diagnostics.
C16_LoopTyping ==
  pc = "done" =>
    /\ \A id \in DOMAIN output[1].type_of_expr :
         \E e \in {module.data.exprs[id]} :
           /\ e.k \in {"Break", "Continue"} => output[1].type_of_expr[id] = NEVER
           /\ e.k = "Loop" =>
                \E bs \in {breaks_of(e.expr) \cap DOMAIN output[1].type_of_expr} :
                  output[1].type_of_expr[id] =
                    IF bs = {} THEN NEVER
                    ELSE IF module.data.exprs[Max(bs)].payload = None THEN UNIT
                    ELSE output[1].type_of_expr[module.data.exprs[Max(bs)].payload[1]]
           /\ e.k = "Break" =>
                (id \in breaks_outside_loops)
                  <=> \E i \in OfKind(output[1].diagnostics, "BreakNotInLoop") :
                        output[1].diagnostics[i].expr = unwrap_or(e.payload, id)
    /\ module.data.fn_defs[1].name = "h" => output[1].diagnostics = <<>>
\* a finished run with a loop whose body holds two breaks that target it,
\* the first with an Int payload, the later one without: the loop is Unit
C16_Witness ==
  /\ pc = "done"
  /\ \E id \in DOMAIN output[1].type_of_expr :
       /\ module.data.exprs[id].k = "Loop"
       /\ \E bs \in {breaks_of(module.data.exprs[id].expr)} :
            /\ Cardinality(bs) = 2
            /\ bs \subseteq DOMAIN output[1].type_of_expr
            /\ module.data.exprs[Min(bs)].payload # None
            /\ output[1].type_of_expr[module.data.exprs[Min(bs)].payload[1]] = INT
            /\ output[1].type_of_expr[id] = UNIT

\* the positions in diags of the diagnostics of one kind about expression expr
About(diags, kind, expr) == {i \in OfKind(diags, kind) : diags[i].expr = expr}
\* what C17 says of r, the outcome of elaborating the struct literal id with
\* no diagnostics before it
StructLiteralOutcome(id, r) ==
  \E inits \in {module.data.exprs[id].fields},
     fields \in {module.data.struct_defs[scopes.expr[id].id].fields},
     diags \in {r.c.result.diagnostics} :
    /\ r.ty = struct_(scopes.expr[id].id)
    /\ \A i \in 1..Len(inits) :
         /\ Cardinality(About(diags, "NoSuchField", inits[i].val))
              = IF find_by_name(fields, module.data.vars[inits[i].name]) = 0 THEN 1 ELSE 0
         /\ \A n \in About(diags, "NoSuchField", inits[i].val) :
              /\ \A m \in 1..Len(diags) :
                   (diags[m].k = "UnboundVar" /\ diags[m].id = Left(inits[i].val)) => n < m
              /\ \A m \in OfKind(diags, "TypeMismatch") : diags[m].id # Left(inits[i].val)
    /\ \A j \in 1..Len(fields) :
         Cardinality({m \in About(diags, "MissingField", id) :
                        diags[m].field.name = fields[j].name})
           = IF find_by_name(inits, module.data.vars[fields[j].name]) = 0 THEN 1 ELSE 0
    /\ \A m \in About(diags, "MissingField", id) :
         /\ \A n \in 1..Len(diags) : diags[n].k # "MissingField" => n < m
         /\ \A n \in About(diags, "MissingField", id) :
              n < m => \E j1, j2 \in 1..Len(fields) :
                         /\ j1 < j2
                         /\ diags[n].field.name = fields[j1].name
                         /\ diags[m].field.name = fields[j2].name

\* C17 (struct literal diagnostics): elaborating a literal whose name
\* denotes a struct appends exactly one NoSuchField per initializer whose
\* name is not a declared field, before the diagnostics of that
\* initializer's value, which is elaborated against Unknown; then exactly
\* one MissingField per declared field without initializer, in declaration
\* order; and the literal is typed with the struct type.
C17_StructLiteralDiagnostics ==
  pc = "infer_decl_body" =>
    \A id \in DOMAIN module.data.exprs :
      (module.data.exprs[id].k = "Struct" /\ scopes.expr[id].k = "Struct") =>
        \E r \in {infer_expr([Ctx EXCEPT !.result.diagnostics = <<>>], Unknown, id)} :
          r.c.panicked = "" /\ StructLiteralOutcome(id, r)

\* the number of entries of the four side-maps of res
Entries(res) ==
  Cardinality(DOMAIN res.type_of_expr) + Cardinality(DOMAIN res.type_of_type)
  + Cardinality(DOMAIN res.type_of_pat) + Cardinality(DOMAIN res.type_of_fn)

\* C18 (write-once side-maps): up to finish the side-maps hold as many
\* entries as inserts were made, so no insert hit a handle that had an
\* entry; a step of infer_module leaves the entries it found as they were;
\* finish hands back side-maps with the keys it found.
C18_WriteOnce ==
  [][/\ pc # "done" => writes = Entries(result)
     /\ pc' \in {"infer_decl", "infer_decl_body", "finish"} =>
          /\ \A id \in DOMAIN result.type_of_expr :
               id \in DOMAIN result'.type_of_expr
               /\ result'.type_of_expr[id] = result.type_of_expr[id]
          /\ \A id \in DOMAIN result.type_of_type :
               id \in DOMAIN result'.type_of_type
               /\ result'.type_of_type[id] = result.type_of_type[id]
          /\ \A id \in DOMAIN result.type_of_pat :
               id \in DOMAIN result'.type_of_pat
               /\ result'.type_of_pat[id] = result.type_of_pat[id]
          /\ \A id \in DOMAIN result.type_of_fn :
               id \in DOMAIN result'.type_of_fn
               /\ result'.type_of_fn[id] = result.type_of_fn[id]
     /\ (pc = "finish" /\ pc' = "done") =>
          /\ writes' = Entries(output'[1])
          /\ DOMAIN output'[1].type_of_expr = DOMAIN result.type_of_expr
          /\ DOMAIN output'[1].type_of_type = DOMAIN result.type_of_type
          /\ DOMAIN output'[1].type_of_pat = DOMAIN result.type_of_pat
          /\ DOMAIN output'[1].type_of_fn = DOMAIN result.type_of_fn]_vars
\* a finished run that typed annotations, parameters, a pattern of its body
\* and two signatures
C18_Witness ==
  /\ pc = "done"
  /\ writes = Entries(output[1])
  /\ Cardinality(DOMAIN output[1].type_of_type) >= 4
  /\ Cardinality(DOMAIN output[1].type_of_pat) >= 3
  /\ Cardinality(DOMAIN output[1].type_of_fn) = 2
  /\ Cardinality(DOMAIN output[1].type_of_expr) >= 3

\* the types without parameters that are neither Unknown nor Never
Plain == {BOOL, INT, FLOAT, CHAR, UNIT}

RECURSIVE returns_of(_)
returns_of(id) ==
  IF module.data.exprs[id].k = "Lambda" THEN {}
  ELSE (IF module.data.exprs[id].k = "Return" THEN {id} ELSE {})
       \cup UNION {returns_of(ch) : ch \in children(id)}
\* in the result res, the return expression r was checked against the return
\* type ret: a TypeMismatch sits at its payload (at r itself when it has
\* none) exactly when the payload's type differs from ret
ReturnChecked(res, r, ret) ==
  \E site \in {unwrap_or(module.data.exprs[r].payload, r)},
     got \in {IF module.data.exprs[r].payload = None THEN UNIT
              ELSE res.type_of_expr[module.data.exprs[r].payload[1]]} :
    (ret \in Plain \cup {NEVER} /\ got \in Plain) =>
      ((ret # got) <=> \E i \in OfKind(res.diagnostics, "TypeMismatch") :
                         res.diagnostics[i].id = Left(site))

\* C20 (fn_type is Some wherever an expression is elaborated): no run emits
\* ReturnNotInFn; every return expression is typed Never, and its payload
\* type (Unit without payload) is checked against the return type of the
\* innermost enclosing function or lambda, a difference being reported by a
\* TypeMismatch at the payload.
C20_ReturnInFn ==
  /\ OfKind(result.diagnostics, "ReturnNotInFn") = {}
  /\ pc = "done" =>
       /\ OfKind(output[1].diagnostics, "ReturnNotInFn") = {}
       /\ \A id \in DOMAIN output[1].type_of_expr :
            /\ module.data.exprs[id].k = "Return" => output[1].type_of_expr[id] = NEVER
            /\ module.data.exprs[id].k = "Lambda" =>
                 \A r \in returns_of(module.data.exprs[id].expr)
                            \cap DOMAIN output[1].type_of_expr :
                   ReturnChecked(output[1], r, as_fn(output[1].type_of_expr[id])[1].ret)
       /\ \A fn \in DOMAIN module.data.fn_defs :
            \A r \in returns_of(module.data.fn_defs[fn].expr)
                       \cap DOMAIN output[1].type_of_expr :
              ReturnChecked(output[1], r, output[1].type_of_fn[fn].ret)
\* a finished run of a function declared to return Int whose body holds a
\* lambda that returns a Bool and, after it, a return of an Int: neither
\* return has a TypeMismatch
C20_Witness ==
  /\ pc = "done"
  /\ output[1].type_of_fn[1].ret = INT
  /\ OfKind(output[1].diagnostics, "TypeMismatch") = {}
  /\ \E r \in returns_of(module.data.fn_defs[1].expr) :
       /\ module.data.exprs[r].payload # None
       /\ output[1].type_of_expr[module.data.exprs[r].payload[1]] = INT
       /\ \E lam \in DOMAIN output[1].type_of_expr :
            /\ lam < r
            /\ module.data.exprs[lam].k = "Lambda"
            /\ output[1].type_of_expr[lam] = function(<<>>, BOOL)
            /\ returns_of(module.data.exprs[lam].expr) # {}

====
